---- MODULE Spec2Model ----
\* A model of the gokv adapters for Pebble, Ristretto and NutsDB: one Store
\* (engine handle + codec) and the operations Set, Get and Delete of each
\* adapter, driven by a sequential caller (Spec) and by the concurrent workers
\* of InteractWithStore (SpecConc).
EXTENDS Integers, Sequences, FiniteSets, TLC

\* ------------------------------------------------------------------ bounds

\* number of goroutines started by the concurrency test (1000 in the tests)
NWorkers == 2

\* ------------------------------------------------------------------ inputs

Adapters == {"pebble", "ristretto", "nutsdb"}
Codecs == {"json", "gob"}

\* keys passed by callers; "" is the empty key
Keys == {"", "a", "b"}
NEKeys == Keys \ {""}

\* the struct test.Foo, reduced to its exported field Bar
Foo(bar) == [kind |-> "foo", bar |-> bar]
\* the untyped nil passed as interface{}
NilV == [kind |-> "nil", bar |-> ""]
\* a value no codec can serialize (a channel, a func)
ChanV == [kind |-> "chan", bar |-> ""]
Bars == {"", "baz"}
FooVals == {Foo(b) : b \in Bars}
\* values passed to Set
Vals == FooVals \cup {NilV, ChanV}

\* output targets passed to Get:
\*   "nil"    the untyped nil                     (store.Get("foo", nil))
\*   "nilptr" a nil-valued typed pointer          (var valPtr *test.Foo)
\*   "ptr"    a valid pointer                     (new(Foo))
\*   "badptr" a valid pointer of another type     (new(int))
Targets == {"nil", "nilptr", "ptr", "badptr"}

\* what an engine call reports: "ok", or "fail" (an I/O error of pebble and
\* nutsdb, a declined pair of ristretto, whose Get, Del and Close report
\* nothing), or for pebble's Get "closefail": db.Get succeeds and the Close of
\* the closer it returned gives an error
Outcomes(ad, op) ==
    IF ad = "ristretto" /\ op # "Set" THEN {"ok"}
    ELSE IF ad = "pebble" /\ op = "Get" THEN {"ok", "fail", "closefail"}
    ELSE {"ok", "fail"}

\* the same with the disk in order: pebble and nutsdb report no I/O error, and
\* the cache may still decline a pair when its set buffer is contended
HealthyOutcomes(ad, op) == IF ad = "ristretto" /\ op = "Set" THEN {"ok", "fail"} ELSE {"ok"}

\* ------------------------------------------------------------------ errors

Nil == "nil"
ErrEmptyKey == "util: empty key"
ErrNilValue == "util: nil value"
ErrMarshal == "codec: marshal failed"
ErrUnmarshal == "codec: unmarshal failed"
ErrEngine == "engine error"
ErrPairIsNotAdded == "key-value item isn't added to the cache"
ErrFailedToCast == "runtime sucks, type assertion failed"
ValidationErrors == {ErrEmptyKey, ErrNilValue}

\* ------------------------------------------------------------------ util

\* util.CheckKey: fails iff the key is empty
CheckKey(k) == IF k = "" THEN ErrEmptyKey ELSE Nil

\* util.CheckVal: fails iff the interface value is nil (isNil); an interface
\* holding a nil-valued typed pointer is not nil
CheckVal(isNil) == IF isNil THEN ErrNilValue ELSE Nil

\* a CheckKeyAndValue that looks at the value before the key
CheckKeyAndValue_ValueFirst(k, isNil) ==
    IF CheckVal(isNil) # Nil THEN CheckVal(isNil) ELSE CheckKey(k)

\* util.CheckKeyAndValue: the key first, then the value
CheckKeyAndValue(k, isNil) ==
    IF CheckKey(k) # Nil THEN CheckKey(k) ELSE CheckVal(isNil)

\* is the interface{} argument nil: the untyped nil of Set and of Get
IsNilValue(v) == v.kind = "nil"
IsNilTarget(t) == t = "nil"

\* ------------------------------------------------------------------ codec

\* the stored bytes: the format that wrote them and the document they hold
\* (the JSON literal null, or an object with the field Bar)
Absent == [fmt |-> "absent", null |-> FALSE, bar |-> ""]
Bytes(c, null, bar) == [fmt |-> c, null |-> null, bar |-> bar]

\* Codec.Marshal: json.Marshal / gob Encode.  A channel is unsupported by both;
\* nil is the JSON document null, and an error of gob.
Marshal(c, v) ==
    CASE v.kind = "chan" -> [err |-> ErrMarshal, data |-> Absent]
      [] v.kind = "nil" ->
           IF c = "json" THEN [err |-> Nil, data |-> Bytes(c, TRUE, "")]
           ELSE [err |-> ErrMarshal, data |-> Absent]
      [] OTHER -> [err |-> Nil, data |-> Bytes(c, FALSE, v.bar)]

\* Codec.Unmarshal into the target, whose contents are `old` before the call:
\* a nil or nil-valued target is an error, null leaves the target as it is, a
\* document of another shape than the target's type is an error.
Unmarshal(c, data, target, old) ==
    CASE target \in {"nil", "nilptr"} -> [err |-> ErrUnmarshal, out |-> old]
      [] data.fmt # c -> [err |-> ErrUnmarshal, out |-> old]
      [] data.null -> [err |-> Nil, out |-> old]
      [] target = "badptr" -> [err |-> ErrUnmarshal, out |-> old]
      [] OTHER -> [err |-> Nil, out |-> Foo(data.bar)]

\* the contents of a freshly allocated target (new(Foo))
ZeroFoo == Foo("")

\* ------------------------------------------------------------------ state

VARIABLES
    adapter,  \* which adapter's Store this is
    codec,    \* Store.codec
    db,       \* the engine's records: key -> stored bytes, or Absent
    last,     \* the most recent call and what it returned
    hist,     \* per key, the most recent Set/Delete call and what preceded it
    wasSet,   \* the keys some Set has written successfully
    pc,       \* each worker's position in InteractWithStore
    werr,     \* each worker: has t.Error been called
    open,     \* the engine handle: TRUE from NewStore until Close
    rd,       \* a pebble Get between closer.Close() and Codec.Unmarshal
    wrote,    \* per key, the values the racing writers' Sets have written
    defaults, \* the package-level DefaultOptions, and the engine's of nutsdb
    made      \* the most recent NewStore call and what it opened

vars == <<adapter, codec, db, last, hist, wasSet, pc, werr, open, rd, wrote,
          defaults, made>>

\* ristretto.DefaultOptions, pebble.DefaultOptions, nutsdb.DefaultOptions of the
\* adapters, and the nutsdb.DefaultOptions of the engine that NewStore copies
DefaultOptions ==
    [ristretto |-> [NumCounters |-> 1000, MaxCost |-> 100, BufferItems |-> 64,
                    Metrics |-> FALSE, Codec |-> "json"],
     pebble |-> [Path |-> "pebble", WriteSync |-> FALSE, Codec |-> "json"],
     nutsdb |-> [BucketName |-> "default", Path |-> "nuts.db", Sync |-> FALSE,
                 NodeNum |-> 1, Codec |-> "json"],
     engine |-> [Dir |-> "", SyncEnable |-> TRUE, NodeNum |-> 1]]

\* NewStore has not been called
NoStore == [ad |-> "none"]

\* no Get is between its engine read and its Unmarshal
IdleRead == [st |-> "idle", key |-> "", target |-> "nil", buf |-> Absent]

\* the state outside the sequential caller's and the workers' reach
rest == <<open, rd, wrote, defaults, made>>

\* ... of a store NewStore has just returned
RestInit ==
    /\ open = TRUE
    /\ rd = IdleRead
    /\ wrote = [k \in NEKeys |-> {}]
    /\ defaults = DefaultOptions
    /\ made = NoStore

Workers == 1..NWorkers

\* the result of an operation: the error, found, the target's contents, the
\* engine's records afterwards and what the engine call reported ("none": the
\* engine was not called)
Ret(err, found, out, d, eng) ==
    [err |-> err, found |-> found, out |-> out, db |-> d, eng |-> eng]

\* ------------------------------------------------------------------ pebble

\* Set that checks the key only: a nil value goes on to the codec
PebbleSet_NoCheckVal(d, c, k, v, eo) ==
    IF CheckKey(k) # Nil
    THEN Ret(CheckKey(k), FALSE, ZeroFoo, d, "none")
    ELSE IF Marshal(c, v).err # Nil
    THEN Ret(Marshal(c, v).err, FALSE, ZeroFoo, d, "none")
    ELSE IF eo = "fail"
    THEN Ret(ErrEngine, FALSE, ZeroFoo, d, "fail")
    ELSE Ret(Nil, FALSE, ZeroFoo, [d EXCEPT ![k] = Marshal(c, v).data], "ok")

\* pebble Store.Set: validate, marshal, db.Set
PebbleSet(d, c, k, v, eo) ==
    IF CheckKeyAndValue(k, IsNilValue(v)) # Nil
    THEN Ret(CheckKeyAndValue(k, IsNilValue(v)), FALSE, ZeroFoo, d, "none")
    ELSE IF Marshal(c, v).err # Nil
    THEN Ret(Marshal(c, v).err, FALSE, ZeroFoo, d, "none")
    ELSE IF eo = "fail"
    THEN Ret(ErrEngine, FALSE, ZeroFoo, d, "fail")
    ELSE Ret(Nil, FALSE, ZeroFoo, [d EXCEPT ![k] = Marshal(c, v).data], "ok")

\* pebble Store.Get: validate, db.Get (ErrNotFound is not an error), close the
\* closer (its error is assigned to err and not looked at), unmarshal
PebbleGet(d, c, k, t, eo) ==
    IF CheckKeyAndValue(k, IsNilTarget(t)) # Nil
    THEN Ret(CheckKeyAndValue(k, IsNilTarget(t)), FALSE, ZeroFoo, d, "none")
    ELSE IF eo = "fail"
    THEN Ret(ErrEngine, FALSE, ZeroFoo, d, "fail")
    ELSE IF d[k] = Absent
    THEN Ret(Nil, FALSE, ZeroFoo, d, "notfound")
    ELSE Ret(Unmarshal(c, d[k], t, ZeroFoo).err, TRUE,
             Unmarshal(c, d[k], t, ZeroFoo).out, d, eo)

\* Delete that validates and returns without calling db.Delete
PebbleDelete_NoDelete(d, c, k, eo) ==
    IF CheckKey(k) # Nil
    THEN Ret(CheckKey(k), FALSE, ZeroFoo, d, "none")
    ELSE Ret(Nil, FALSE, ZeroFoo, d, "none")

\* pebble Store.Delete: validate, db.Delete
PebbleDelete(d, c, k, eo) ==
    IF CheckKey(k) # Nil
    THEN Ret(CheckKey(k), FALSE, ZeroFoo, d, "none")
    ELSE IF eo = "fail"
    THEN Ret(ErrEngine, FALSE, ZeroFoo, d, "fail")
    ELSE Ret(Nil, FALSE, ZeroFoo, [d EXCEPT ![k] = Absent], "ok")

\* the result of Close: the error, and whether the engine handle is still open
CloseRet(err, op) == [err |-> err, open |-> op]

\* pebble Store.Close: return s.db.Close()
PebbleClose(eo) == CloseRet(IF eo = "fail" THEN ErrEngine ELSE Nil, FALSE)

\* --------------------------------------------------------------- ristretto

\* Set that hands the cache the value itself instead of its marshalled bytes
RistrettoSet_StoresValue(d, c, k, v, eo) ==
    IF CheckKeyAndValue(k, IsNilValue(v)) # Nil
    THEN Ret(CheckKeyAndValue(k, IsNilValue(v)), FALSE, ZeroFoo, d, "none")
    ELSE IF Marshal(c, v).err # Nil
    THEN Ret(Marshal(c, v).err, FALSE, ZeroFoo, d, "none")
    ELSE IF eo = "fail"
    THEN Ret(ErrPairIsNotAdded, FALSE, ZeroFoo, d, "fail")
    ELSE Ret(Nil, FALSE, ZeroFoo,
             [d EXCEPT ![k] = [fmt |-> "value", null |-> FALSE, bar |-> v.bar]], "ok")

\* Set that leaves a key alone that the cache already holds
RistrettoSet_KeepExisting(d, c, k, v, eo) ==
    IF CheckKeyAndValue(k, IsNilValue(v)) # Nil
    THEN Ret(CheckKeyAndValue(k, IsNilValue(v)), FALSE, ZeroFoo, d, "none")
    ELSE IF Marshal(c, v).err # Nil
    THEN Ret(Marshal(c, v).err, FALSE, ZeroFoo, d, "none")
    ELSE IF eo = "fail"
    THEN Ret(ErrPairIsNotAdded, FALSE, ZeroFoo, d, "fail")
    ELSE IF d[k] # Absent
    THEN Ret(Nil, FALSE, ZeroFoo, d, "ok")
    ELSE Ret(Nil, FALSE, ZeroFoo, [d EXCEPT ![k] = Marshal(c, v).data], "ok")

\* Set that hands data to the cache before it looks at Marshal's error
RistrettoSet_WriteBeforeErrCheck(d, c, k, v, eo) ==
    IF CheckKeyAndValue(k, IsNilValue(v)) # Nil
    THEN Ret(CheckKeyAndValue(k, IsNilValue(v)), FALSE, ZeroFoo, d, "none")
    ELSE IF eo = "fail"
    THEN Ret(ErrPairIsNotAdded, FALSE, ZeroFoo, d, "fail")
    ELSE Ret(Marshal(c, v).err, FALSE, ZeroFoo,
             [d EXCEPT ![k] = Marshal(c, v).data], "ok")

\* Set that drops the result of db.Set
RistrettoSet_IgnoreResult(d, c, k, v, eo) ==
    IF CheckKeyAndValue(k, IsNilValue(v)) # Nil
    THEN Ret(CheckKeyAndValue(k, IsNilValue(v)), FALSE, ZeroFoo, d, "none")
    ELSE IF Marshal(c, v).err # Nil
    THEN Ret(Marshal(c, v).err, FALSE, ZeroFoo, d, "none")
    ELSE IF eo = "fail"
    THEN Ret(Nil, FALSE, ZeroFoo, d, "fail")
    ELSE Ret(Nil, FALSE, ZeroFoo, [d EXCEPT ![k] = Marshal(c, v).data], "ok")

\* ristretto Store.Set: validate, marshal, db.Set; a pair the cache does not
\* take is ErrPairIsNotAdded
RistrettoSet(d, c, k, v, eo) ==
    IF CheckKeyAndValue(k, IsNilValue(v)) # Nil
    THEN Ret(CheckKeyAndValue(k, IsNilValue(v)), FALSE, ZeroFoo, d, "none")
    ELSE IF Marshal(c, v).err # Nil
    THEN Ret(Marshal(c, v).err, FALSE, ZeroFoo, d, "none")
    ELSE IF eo = "fail"
    THEN Ret(ErrPairIsNotAdded, FALSE, ZeroFoo, d, "fail")
    ELSE Ret(Nil, FALSE, ZeroFoo, [d EXCEPT ![k] = Marshal(c, v).data], "ok")

\* Get with the test of the lookup inverted: a hit is reported as a miss
RistrettoGet_MissOnHit(d, c, k, t, eo) ==
    IF CheckKeyAndValue(k, IsNilTarget(t)) # Nil
    THEN Ret(CheckKeyAndValue(k, IsNilTarget(t)), FALSE, ZeroFoo, d, "none")
    ELSE IF d[k] # Absent
    THEN Ret(Nil, FALSE, ZeroFoo, d, "ok")
    ELSE Ret(Unmarshal(c, d[k], t, ZeroFoo).err, TRUE,
             Unmarshal(c, d[k], t, ZeroFoo).out, d, "notfound")

\* ristretto Store.Get: validate, db.Get, cast to []byte, unmarshal
RistrettoGet(d, c, k, t, eo) ==
    IF CheckKeyAndValue(k, IsNilTarget(t)) # Nil
    THEN Ret(CheckKeyAndValue(k, IsNilTarget(t)), FALSE, ZeroFoo, d, "none")
    ELSE IF d[k] = Absent
    THEN Ret(Nil, FALSE, ZeroFoo, d, "notfound")
    ELSE IF d[k].fmt \notin Codecs
    THEN Ret(ErrFailedToCast, FALSE, ZeroFoo, d, "ok")
    ELSE Ret(Unmarshal(c, d[k], t, ZeroFoo).err, TRUE,
             Unmarshal(c, d[k], t, ZeroFoo).out, d, "ok")

\* Delete without the check of the key
RistrettoDelete_NoCheck(d, c, k, eo) ==
    Ret(Nil, FALSE, ZeroFoo, [d EXCEPT ![k] = Absent], "ok")

\* ristretto Store.Delete: validate, db.Del
RistrettoDelete(d, c, k, eo) ==
    IF CheckKey(k) # Nil
    THEN Ret(CheckKey(k), FALSE, ZeroFoo, d, "none")
    ELSE Ret(Nil, FALSE, ZeroFoo, [d EXCEPT ![k] = Absent], "ok")

\* ristretto Store.Close: s.db.Close() returns nothing; return nil
RistrettoClose(eo) == CloseRet(Nil, FALSE)

\* ------------------------------------------------------------------ nutsdb

\* Set that validates after the transaction instead of before it
NutsSet_CheckAfterPut(d, c, k, v, eo) ==
    IF Marshal(c, v).err # Nil
    THEN Ret(Marshal(c, v).err, FALSE, ZeroFoo, d, "none")
    ELSE IF eo = "fail"
    THEN Ret(ErrEngine, FALSE, ZeroFoo, d, "fail")
    ELSE Ret(CheckKeyAndValue(k, IsNilValue(v)), FALSE, ZeroFoo,
             [d EXCEPT ![k] = Marshal(c, v).data], "ok")

\* nutsdb Store.Set: validate, marshal, db.Update(tx.Put)
NutsSet(d, c, k, v, eo) ==
    IF CheckKeyAndValue(k, IsNilValue(v)) # Nil
    THEN Ret(CheckKeyAndValue(k, IsNilValue(v)), FALSE, ZeroFoo, d, "none")
    ELSE IF Marshal(c, v).err # Nil
    THEN Ret(Marshal(c, v).err, FALSE, ZeroFoo, d, "none")
    ELSE IF eo = "fail"
    THEN Ret(ErrEngine, FALSE, ZeroFoo, d, "fail")
    ELSE Ret(Nil, FALSE, ZeroFoo, [d EXCEPT ![k] = Marshal(c, v).data], "ok")

\* Get that reports a record it cannot unmarshal as not found
NutsGet_NotFoundOnUnmarshalErr(d, c, k, t, eo) ==
    IF CheckKeyAndValue(k, IsNilTarget(t)) # Nil
    THEN Ret(CheckKeyAndValue(k, IsNilTarget(t)), FALSE, ZeroFoo, d, "none")
    ELSE IF eo = "fail"
    THEN Ret(Nil, FALSE, ZeroFoo, d, "fail")
    ELSE IF d[k] = Absent
    THEN Ret(Nil, FALSE, ZeroFoo, d, "notfound")
    ELSE Ret(Unmarshal(c, d[k], t, ZeroFoo).err,
             Unmarshal(c, d[k], t, ZeroFoo).err = Nil,
             Unmarshal(c, d[k], t, ZeroFoo).out, d, "ok")

\* Get that unmarshals inside the view, before the view's error is known
NutsGet_UnmarshalInView(d, c, k, t, eo) ==
    IF CheckKeyAndValue(k, IsNilTarget(t)) # Nil
    THEN Ret(CheckKeyAndValue(k, IsNilTarget(t)), FALSE, ZeroFoo, d, "none")
    ELSE IF d[k] = Absent
    THEN Ret(Nil, FALSE, ZeroFoo, d, IF eo = "fail" THEN "fail" ELSE "notfound")
    ELSE IF eo = "fail"
    THEN Ret(Nil, FALSE, Unmarshal(c, d[k], t, ZeroFoo).out, d, "fail")
    ELSE Ret(Unmarshal(c, d[k], t, ZeroFoo).err, TRUE,
             Unmarshal(c, d[k], t, ZeroFoo).out, d, "ok")

\* Get that returns the error of the view, the missing key's included
NutsGet_ReturnsViewErr(d, c, k, t, eo) ==
    IF CheckKeyAndValue(k, IsNilTarget(t)) # Nil
    THEN Ret(CheckKeyAndValue(k, IsNilTarget(t)), FALSE, ZeroFoo, d, "none")
    ELSE IF eo = "fail"
    THEN Ret(ErrEngine, FALSE, ZeroFoo, d, "fail")
    ELSE IF d[k] = Absent
    THEN Ret(ErrEngine, FALSE, ZeroFoo, d, "notfound")
    ELSE Ret(Unmarshal(c, d[k], t, ZeroFoo).err, TRUE,
             Unmarshal(c, d[k], t, ZeroFoo).out, d, "ok")

\* nutsdb Store.Get: validate, db.View(tx.Get); every error of the view, the
\* missing key as any other, is (false, nil); then unmarshal
NutsGet(d, c, k, t, eo) ==
    IF CheckKeyAndValue(k, IsNilTarget(t)) # Nil
    THEN Ret(CheckKeyAndValue(k, IsNilTarget(t)), FALSE, ZeroFoo, d, "none")
    ELSE IF eo = "fail"
    THEN Ret(Nil, FALSE, ZeroFoo, d, "fail")
    ELSE IF d[k] = Absent
    THEN Ret(Nil, FALSE, ZeroFoo, d, "notfound")
    ELSE Ret(Unmarshal(c, d[k], t, ZeroFoo).err, TRUE,
             Unmarshal(c, d[k], t, ZeroFoo).out, d, "ok")

\* Delete that empties the bucket instead of deleting the one key
NutsDelete_DropsBucket(d, c, k, eo) ==
    IF CheckKey(k) # Nil
    THEN Ret(CheckKey(k), FALSE, ZeroFoo, d, "none")
    ELSE IF eo = "fail"
    THEN Ret(ErrEngine, FALSE, ZeroFoo, d, "fail")
    ELSE Ret(Nil, FALSE, ZeroFoo, [j \in Keys |-> Absent], "ok")

\* Delete that fails on a key the bucket does not hold
NutsDelete_ErrOnMissing(d, c, k, eo) ==
    IF CheckKey(k) # Nil
    THEN Ret(CheckKey(k), FALSE, ZeroFoo, d, "none")
    ELSE IF eo = "fail"
    THEN Ret(ErrEngine, FALSE, ZeroFoo, d, "fail")
    ELSE IF d[k] = Absent
    THEN Ret(ErrEngine, FALSE, ZeroFoo, d, "notfound")
    ELSE Ret(Nil, FALSE, ZeroFoo, [d EXCEPT ![k] = Absent], "ok")

\* nutsdb Store.Delete: validate, db.Update(tx.Delete)
NutsDelete(d, c, k, eo) ==
    IF CheckKey(k) # Nil
    THEN Ret(CheckKey(k), FALSE, ZeroFoo, d, "none")
    ELSE IF eo = "fail"
    THEN Ret(ErrEngine, FALSE, ZeroFoo, d, "fail")
    ELSE Ret(Nil, FALSE, ZeroFoo, [d EXCEPT ![k] = Absent], "ok")

\* Close that leaves the handle in use when the engine's close fails
NutsClose_StaysOpenOnError(eo) ==
    CloseRet(IF eo = "fail" THEN ErrEngine ELSE Nil, eo = "fail")

\* nutsdb Store.Close: return s.db.Close()
NutsClose(eo) == CloseRet(IF eo = "fail" THEN ErrEngine ELSE Nil, FALSE)

\* ------------------------------------------------------- the gokv.Store

\* the Store's method, by adapter
StoreSet(ad, d, c, k, v, eo) ==
    CASE ad = "pebble" -> PebbleSet(d, c, k, v, eo)
      [] ad = "ristretto" -> RistrettoSet(d, c, k, v, eo)
      [] OTHER -> NutsSet(d, c, k, v, eo)

StoreGet(ad, d, c, k, t, eo) ==
    CASE ad = "pebble" -> PebbleGet(d, c, k, t, eo)
      [] ad = "ristretto" -> RistrettoGet(d, c, k, t, eo)
      [] OTHER -> NutsGet(d, c, k, t, eo)

StoreDelete(ad, d, c, k, eo) ==
    CASE ad = "pebble" -> PebbleDelete(d, c, k, eo)
      [] ad = "ristretto" -> RistrettoDelete(d, c, k, eo)
      [] OTHER -> NutsDelete(d, c, k, eo)

StoreClose(ad, eo) ==
    CASE ad = "pebble" -> PebbleClose(eo)
      [] ad = "ristretto" -> RistrettoClose(eo)
      [] OTHER -> NutsClose(eo)

\* ------------------------------------------------------------- the caller

\* the record of a call: the operation, its arguments and its results
Call(op, k, v, t, r) ==
    [op |-> op, key |-> k, val |-> v, target |-> t,
     err |-> r.err, found |-> r.found, out |-> r.out, eng |-> r.eng]

NoCall ==
    [op |-> "none", key |-> "", val |-> NilV, target |-> "nil",
     err |-> Nil, found |-> FALSE, out |-> ZeroFoo, eng |-> "none"]

\* what hist keeps of the most recent Set or Delete call on a key: the
\* operation, whether it returned nil, the Bar it wrote, whether the call
\* before it on this key was the same operation and returned nil too (again),
\* and the Bar that one wrote (pbar)
Entry(op, ok, bar, again, pbar) ==
    [op |-> op, ok |-> ok, bar |-> bar, again |-> again, pbar |-> pbar]
NoEntry == Entry("none", FALSE, "", FALSE, "")

\* the entry of a call op(k, v) that returned err, after the entry old
NewEntry(old, op, v, err) ==
    LET ok == err = Nil
        again == ok /\ old.ok /\ old.op = op
    IN  Entry(op, ok,
              IF op = "Set" /\ ok THEN v.bar ELSE "",
              again,
              IF op = "Set" /\ again THEN old.bar ELSE "")

\* hist after a Set or Delete call on k (the empty key has no history)
Push(h, k, op, v, err) ==
    IF k = "" THEN h ELSE [h EXCEPT ![k] = NewEntry(h[k], op, v, err)]

Init ==
    /\ adapter \in Adapters
    /\ codec \in Codecs
    /\ db = [k \in Keys |-> Absent]
    /\ last = NoCall
    /\ hist = [k \in NEKeys |-> NoEntry]
    /\ wasSet = {}
    /\ pc = [w \in Workers |-> "idle"]
    /\ werr = [w \in Workers |-> FALSE]
    /\ RestInit

\* store.Set(k, v)
DoSet(k, v, eo) ==
    LET r == StoreSet(adapter, db, codec, k, v, eo) IN
    /\ db' = r.db
    /\ last' = Call("Set", k, v, "nil", r)
    /\ hist' = Push(hist, k, "Set", v, r.err)
    /\ wasSet' = IF r.err = Nil THEN wasSet \cup {k} ELSE wasSet

\* store.Get(k, t), t a target with the contents of a new(Foo)
DoGet(k, t, eo) ==
    LET r == StoreGet(adapter, db, codec, k, t, eo) IN
    /\ db' = r.db
    /\ last' = Call("Get", k, NilV, t, r)
    /\ UNCHANGED <<hist, wasSet>>

\* store.Delete(k)
DoDelete(k, eo) ==
    LET r == StoreDelete(adapter, db, codec, k, eo) IN
    /\ db' = r.db
    /\ last' = Call("Delete", k, NilV, "nil", r)
    /\ hist' = Push(hist, k, "Delete", NilV, r.err)
    /\ UNCHANGED wasSet

Set ==
    /\ \E k \in Keys, v \in Vals, eo \in Outcomes(adapter, "Set") : DoSet(k, v, eo)
    /\ UNCHANGED <<adapter, codec, pc, werr, rest>>

Get ==
    /\ \E k \in Keys, t \in Targets, eo \in Outcomes(adapter, "Get") : DoGet(k, t, eo)
    /\ UNCHANGED <<adapter, codec, pc, werr, rest>>

Delete ==
    /\ \E k \in Keys, eo \in Outcomes(adapter, "Delete") : DoDelete(k, eo)
    /\ UNCHANGED <<adapter, codec, pc, werr, rest>>

Next == Set \/ Get \/ Delete

Spec == Init /\ [][Next]_vars

\* ---------------------------------------------------------- the lifecycle

\* store.Close(): the engine handle is released, the records stay where the
\* engine keeps them
Close ==
    /\ \E eo \in Outcomes(adapter, "Close") :
          /\ last' = Call("Close", "", NilV, "nil",
                          Ret(StoreClose(adapter, eo).err, FALSE, ZeroFoo, db, eo))
          /\ open' = StoreClose(adapter, eo).open
    /\ UNCHANGED <<adapter, codec, db, hist, wasSet, pc, werr, rd, wrote, defaults, made>>

\* the caller's calls up to and after Close; what a call on a closed store does
\* is the engine's business, and any of its outcomes may follow
NextLife == Set \/ Get \/ Delete \/ Close

SpecLife == Init /\ [][NextLife]_vars

\* ---------------------------------------------------------------- NewStore

\* the options callers pass: every field unset (zero value) or set
OptionsOf(ad) ==
    CASE ad = "ristretto" ->
           [NumCounters : {0, 5}, MaxCost : {0, 7}, BufferItems : {0, 3},
            Metrics : BOOLEAN, Codec : {"nil", "json", "gob"}]
      [] ad = "pebble" ->
           [Path : {"", "p"}, WriteSync : BOOLEAN, Codec : {"nil", "json", "gob"}]
      [] OTHER ->
           [BucketName : {"", "bk"}, Path : {"", "p"}, Sync : BOOLEAN,
            NodeNum : {0, 2}, Codec : {"nil", "json", "gob"}]

\* what NewStore returns and does: the configuration it opened the engine
\* with, the fields of the Store, the error, and the defaults afterwards
NewRet(config, store, eo, dflt) ==
    [config |-> config, store |-> store,
     err |-> IF eo = "fail" THEN ErrEngine ELSE Nil, defaults |-> dflt]

\* ristretto NewStore: a nil Codec takes the default; each of NumCounters,
\* MaxCost and BufferItems is compared with itself, not with 0
RistrettoNewStore(options, dflt, eo) ==
    LET o1 == IF options.Codec = "nil"
              THEN [options EXCEPT !.Codec = dflt.ristretto.Codec] ELSE options
        o2 == IF o1.NumCounters = o1.NumCounters
              THEN [o1 EXCEPT !.NumCounters = dflt.ristretto.NumCounters] ELSE o1
        o3 == IF o2.MaxCost = o2.MaxCost
              THEN [o2 EXCEPT !.MaxCost = dflt.ristretto.MaxCost] ELSE o2
        o4 == IF o3.BufferItems = o3.BufferItems
              THEN [o3 EXCEPT !.BufferItems = dflt.ristretto.BufferItems] ELSE o3
    IN  NewRet([NumCounters |-> o4.NumCounters, MaxCost |-> o4.MaxCost,
                BufferItems |-> o4.BufferItems, Metrics |-> o4.Metrics],
               [codec |-> o4.Codec], eo, dflt)

\* pebble NewStore: an empty Path and a nil Codec take the defaults
PebbleNewStore(options, dflt, eo) ==
    LET o1 == IF options.Path = ""
              THEN [options EXCEPT !.Path = dflt.pebble.Path] ELSE options
        o2 == IF o1.Codec = "nil"
              THEN [o1 EXCEPT !.Codec = dflt.pebble.Codec] ELSE o1
    IN  NewRet([Path |-> o2.Path],
               [writeSync |-> o2.WriteSync, codec |-> o2.Codec], eo, dflt)

\* NewStore that fills in the engine's own DefaultOptions instead of a copy
NutsNewStore_WritesEngineDefaults(options, dflt, eo) ==
    LET o1 == IF options.BucketName = ""
              THEN [options EXCEPT !.BucketName = dflt.nutsdb.BucketName] ELSE options
        o2 == IF o1.Path = "" THEN [o1 EXCEPT !.Path = dflt.nutsdb.Path] ELSE o1
        o3 == IF o2.Codec = "nil" THEN [o2 EXCEPT !.Codec = dflt.nutsdb.Codec] ELSE o2
        o4 == IF o3.NodeNum = 0 THEN [o3 EXCEPT !.NodeNum = dflt.nutsdb.NodeNum] ELSE o3
        ops == [dflt.engine EXCEPT !.Dir = o4.Path, !.SyncEnable = o4.Sync,
                                   !.NodeNum = o4.NodeNum]
    IN  NewRet(ops, [bucketName |-> o4.BucketName, codec |-> o4.Codec], eo,
               [dflt EXCEPT !.engine = ops])

\* nutsdb NewStore: an empty BucketName, an empty Path, a nil Codec and a zero
\* NodeNum take the defaults; ops is a copy of the engine's DefaultOptions
NutsNewStore(options, dflt, eo) ==
    LET o1 == IF options.BucketName = ""
              THEN [options EXCEPT !.BucketName = dflt.nutsdb.BucketName] ELSE options
        o2 == IF o1.Path = "" THEN [o1 EXCEPT !.Path = dflt.nutsdb.Path] ELSE o1
        o3 == IF o2.Codec = "nil" THEN [o2 EXCEPT !.Codec = dflt.nutsdb.Codec] ELSE o2
        o4 == IF o3.NodeNum = 0 THEN [o3 EXCEPT !.NodeNum = dflt.nutsdb.NodeNum] ELSE o3
        ops == [dflt.engine EXCEPT !.Dir = o4.Path, !.SyncEnable = o4.Sync,
                                   !.NodeNum = o4.NodeNum]
    IN  NewRet(ops, [bucketName |-> o4.BucketName, codec |-> o4.Codec], eo, dflt)

NewStoreOf(ad, options, dflt, eo) ==
    CASE ad = "ristretto" -> RistrettoNewStore(options, dflt, eo)
      [] ad = "pebble" -> PebbleNewStore(options, dflt, eo)
      [] OTHER -> NutsNewStore(options, dflt, eo)

\* NewStore(options) of one of the packages: on success the caller holds a new,
\* open and empty Store; on an error of the engine's open, the zero Store
NewStore ==
    \E ad \in Adapters, eo \in {"ok", "fail"} : \E o \in OptionsOf(ad) :
        LET r == NewStoreOf(ad, o, defaults, eo) IN
        /\ made' = [ad |-> ad, options |-> o, config |-> r.config,
                    store |-> r.store, err |-> r.err]
        /\ defaults' = r.defaults
        /\ IF r.err = Nil
           THEN /\ adapter' = ad
                /\ codec' = r.store.codec
                /\ db' = [k \in Keys |-> Absent]
                /\ last' = NoCall
                /\ hist' = [k \in NEKeys |-> NoEntry]
                /\ wasSet' = {}
                /\ open' = TRUE
           ELSE UNCHANGED <<adapter, codec, db, last, hist, wasSet, open>>
        /\ UNCHANGED <<pc, werr, rd, wrote>>

\* a store is made and closed, and another is made
NextNew == NewStore \/ Close

SpecNew == Init /\ [][NextNew]_vars

\* ------------------------------------------------- the concurrent workers

\* the key the workers share
SharedKey == "a"

\* TestConcurrentInteractions: a fresh store and NWorkers goroutines, each
\* about to run InteractWithStore
InitConc ==
    /\ adapter \in Adapters
    /\ codec \in Codecs
    /\ db = [k \in Keys |-> Absent]
    /\ last = NoCall
    /\ hist = [k \in NEKeys |-> NoEntry]
    /\ wasSet = {}
    /\ pc = [w \in Workers |-> "read1"]
    /\ werr = [w \in Workers |-> FALSE]
    /\ RestInit

\* t.Error(err) if the call that just returned gave an error
Report(w) == werr' = [werr EXCEPT ![w] = werr[w] \/ last'.err # Nil]

\* InteractWithStore, "Read": store.Get(key, new(Foo))
WorkerRead1(w) ==
    /\ pc[w] = "read1"
    /\ \E eo \in HealthyOutcomes(adapter, "Get") : DoGet(SharedKey, "ptr", eo)
    /\ Report(w)
    /\ pc' = [pc EXCEPT ![w] = "write"]
    /\ UNCHANGED <<adapter, codec, rest>>

\* InteractWithStore, "Write": store.Set(key, Foo{})
WorkerWrite(w) ==
    /\ pc[w] = "write"
    /\ \E eo \in HealthyOutcomes(adapter, "Set") : DoSet(SharedKey, ZeroFoo, eo)
    /\ Report(w)
    /\ pc' = [pc EXCEPT ![w] = "read2"]
    /\ UNCHANGED <<adapter, codec, rest>>

\* InteractWithStore, second "Read", then the deferred waitGroup.Done()
WorkerRead2(w) ==
    /\ pc[w] = "read2"
    /\ \E eo \in HealthyOutcomes(adapter, "Get") : DoGet(SharedKey, "ptr", eo)
    /\ Report(w)
    /\ pc' = [pc EXCEPT ![w] = "done"]
    /\ UNCHANGED <<adapter, codec, rest>>

NextConc == \E w \in Workers : WorkerRead1(w) \/ WorkerWrite(w) \/ WorkerRead2(w)

SpecConc == InitConc /\ [][NextConc]_vars

\* --------------------------------------- a Get racing with Sets and Deletes

\* bytes that are no document of either codec: a buffer overwritten in part
Torn == [fmt |-> "torn", null |-> FALSE, bar |-> ""]

\* pebble Store.Get, its last statement: Codec.Unmarshal reads the buffer that
\* db.Get returned, whose closer is closed already
PebbleGetUnmarshal(d, c, buf, t) ==
    Ret(Unmarshal(c, buf, t, ZeroFoo).err, TRUE,
        Unmarshal(c, buf, t, ZeroFoo).out, d, "ok")

\* the buffer of a Get in flight after another goroutine's engine write: db.Get
\* promises its bytes until closer.Close() only, so a released buffer is what
\* it was or overwritten; no Get in flight, nothing changes
Clobber(r, eng) ==
    IF r.st = "held" /\ eng # "none"
    THEN {r, [r EXCEPT !.buf = Torn]}
    ELSE {r}

\* another goroutine's store.Set(k, v)
RaceSet ==
    /\ \E k \in NEKeys, v \in FooVals, eo \in HealthyOutcomes(adapter, "Set") :
          /\ DoSet(k, v, eo)
          /\ wrote' = IF last'.err = Nil
                      THEN [wrote EXCEPT ![k] = @ \cup {v}] ELSE wrote
    /\ rd' \in Clobber(rd, last'.eng)
    /\ UNCHANGED <<adapter, codec, pc, werr, open, defaults, made>>

\* another goroutine's store.Delete(k)
RaceDelete ==
    /\ \E k \in NEKeys, eo \in HealthyOutcomes(adapter, "Delete") : DoDelete(k, eo)
    /\ rd' \in Clobber(rd, last'.eng)
    /\ UNCHANGED <<adapter, codec, pc, werr, open, wrote, defaults, made>>

\* the reader's store.Get(k, new(Foo)) up to and including the engine read:
\* pebble's Get has closed the closer and still has to unmarshal; the Get of
\* ristretto and nutsdb, and a pebble Get that found nothing, has returned
ReadBegin ==
    /\ rd.st = "idle"
    /\ \E k \in NEKeys, eo \in HealthyOutcomes(adapter, "Get") :
          IF adapter = "pebble" /\ PebbleGet(db, codec, k, "ptr", eo).eng = "ok"
          THEN /\ rd' = [st |-> "held", key |-> k, target |-> "ptr", buf |-> db[k]]
               /\ UNCHANGED <<db, last, hist, wasSet>>
          ELSE /\ DoGet(k, "ptr", eo)
               /\ UNCHANGED rd
    /\ UNCHANGED <<adapter, codec, pc, werr, open, wrote, defaults, made>>

\* the reader's pebble Get returns: true and what Unmarshal makes of the buffer
ReadEnd ==
    /\ rd.st = "held"
    /\ last' = Call("Get", rd.key, NilV, rd.target,
                    PebbleGetUnmarshal(db, codec, rd.buf, rd.target))
    /\ rd' = IdleRead
    /\ UNCHANGED <<adapter, codec, db, hist, wasSet, pc, werr, open, wrote, defaults, made>>

NextRace == RaceSet \/ RaceDelete \/ ReadBegin \/ ReadEnd

SpecRace == Init /\ [][NextRace]_vars

\* ------------------------------------------------------------------ claims

\* a Get with a usable target: a valid pointer
GoodTargets == {"ptr", "badptr"}

\* C1: Set(k, v) returned nil and no Set or Delete on k followed: the next
\* Get(k, &out) whose engine read reports no I/O error returns (true, nil)
\* and out equals v.
C1_SetThenGet ==
    \A k \in NEKeys :
        (/\ last.op = "Get" /\ last.key = k /\ last.target = "ptr"
         /\ last.eng # "fail"
         /\ hist[k].op = "Set" /\ hist[k].ok)
        => (last.found /\ last.err = Nil /\ last.out = Foo(hist[k].bar))

C1_Witness ==
    /\ last.op = "Get" /\ last.key = "a" /\ last.target = "ptr"
    /\ hist["a"].op = "Set" /\ hist["a"].ok /\ hist["a"].bar = "baz"
    /\ last.found /\ last.err = Nil /\ last.out = Foo("baz")

\* C2: a key no Set has written: Get(k, &out) with a valid target returns
\* (false, nil), the engine reporting no I/O error.
C2_FreshGetNotFound ==
    \A k \in NEKeys :
        (/\ last.op = "Get" /\ last.key = k /\ last.target \in GoodTargets
         /\ last.eng # "fail"
         /\ k \notin wasSet)
        => (~last.found /\ last.err = Nil)

C2_Witness ==
    /\ last.op = "Get" /\ last.key = "b" /\ last.target = "ptr"
    /\ "b" \notin wasSet /\ last.eng = "notfound"
    /\ ~last.found /\ last.err = Nil

\* C3: k was written by a Set that returned nil, the last Set or Delete call on
\* k is a Delete that returned nil: every Get(k, &out) returns (false, nil).
C3_DeletedNotFound ==
    \A k \in NEKeys :
        (/\ last.op = "Get" /\ last.key = k /\ last.target \in GoodTargets
         /\ last.eng # "fail"
         /\ k \in wasSet /\ hist[k].op = "Delete" /\ hist[k].ok)
        => (~last.found /\ last.err = Nil)

C3_Witness ==
    /\ last.op = "Get" /\ last.key = "a" /\ last.target = "ptr"
    /\ "a" \in wasSet /\ hist["a"].op = "Delete" /\ hist["a"].ok
    /\ ~last.found /\ last.err = Nil

\* C4: a Delete(k) of an absent key, and a Delete(k) that follows a Delete(k)
\* that returned nil, returns nil and leaves the engine's records as they
\* were (the engine reporting no I/O error).
C4_DeleteIdempotent ==
    [][\A k \in NEKeys :
          (/\ last'.op = "Delete" /\ last'.key = k /\ last'.eng # "fail"
           /\ (db[k] = Absent \/ (hist[k].op = "Delete" /\ hist[k].ok)))
          => (last'.err = Nil /\ db' = db)]_vars

C4_Witness ==
    /\ last.op = "Delete" /\ last.key = "a" /\ last.err = Nil
    /\ hist["a"].op = "Delete" /\ hist["a"].again
    /\ "a" \in wasSet /\ db["a"] = Absent

\* C5: no Get or Set of any worker of the concurrency test returns an error.
C5_NoWorkerError == \A w \in Workers : ~werr[w]

\* C6: Set, Get and Delete with the empty key return a non-nil error.
C6_EmptyKeyFails ==
    (last.op \in {"Set", "Get", "Delete"} /\ last.key = "") => last.err # Nil

C6_Witness ==
    /\ last.op = "Delete" /\ last.key = "" /\ last.err = ErrEmptyKey
    /\ \E k \in NEKeys : db[k] # Absent

\* C7: a call that fails validation does not call the engine and leaves the
\* engine's records as they were.
C7_ValidationNoEffect ==
    [][(last'.op # "none" /\ last'.err \in ValidationErrors)
          => (last'.eng = "none" /\ db' = db)]_vars

C7_Witness ==
    /\ last.op = "Set" /\ last.key = "a" /\ last.err = ErrNilValue
    /\ last.eng = "none" /\ db["a"] # Absent

\* C8: Set(k, nil) with a non-empty key returns a non-nil error and leaves
\* the record under k as it was, with either codec.
C8_SetNilFails ==
    [][\A k \in NEKeys :
          (last'.op = "Set" /\ last'.key = k /\ last'.val = NilV)
          => (last'.err # Nil /\ db'[k] = db[k])]_vars

C8_Witness ==
    /\ last.op = "Set" /\ last.key = "a" /\ last.val = NilV
    /\ last.err = ErrNilValue /\ codec = "json" /\ db["a"] = Absent

\* C9: Get(k, nil) and Get(k, p), p a nil-valued typed pointer, return a
\* non-nil error for every non-empty key, present or absent.
C9_NilTargetFails ==
    (last.op = "Get" /\ last.key \in NEKeys /\ last.target \in {"nil", "nilptr"})
        => last.err # Nil

\* C10: Set(k, v1) and then Set(k, v2) returned nil and no Set or Delete on k
\* followed: Get(k, &out) returns (true, nil) with out equal to v2, not v1.
C10_Overwrite ==
    \A k \in NEKeys :
        (/\ last.op = "Get" /\ last.key = k /\ last.target = "ptr"
         /\ last.eng # "fail"
         /\ hist[k].op = "Set" /\ hist[k].ok /\ hist[k].again)
        => (/\ last.found /\ last.err = Nil
            /\ last.out = Foo(hist[k].bar)
            /\ (hist[k].pbar # hist[k].bar => last.out # Foo(hist[k].pbar)))

C10_Witness ==
    /\ last.op = "Get" /\ last.key = "a" /\ last.target = "ptr"
    /\ hist["a"].op = "Set" /\ hist["a"].again
    /\ hist["a"].pbar = "" /\ hist["a"].bar = "baz"
    /\ last.found /\ last.out = Foo("baz")

\* C11: a Get(k, &out) that runs while other goroutines Set and Delete returns
\* (false, nil) or (true, nil) with out a value some Set(k, _) wrote; it
\* returns no torn value and no error.
C11_NoCorruption ==
    last.op = "Get"
        => \/ (~last.found /\ last.err = Nil)
           \/ (last.found /\ last.err = Nil /\ last.out \in wrote[last.key])

\* C12: a Get whose engine lookup fails with an error other than not-found
\* returns that error; Get returns (false, nil) only when the key is absent.
C12_EngineErrorReturned ==
    /\ (last.op = "Get" /\ last.eng = "fail")
          => (~last.found /\ last.err = ErrEngine)
    /\ (last.op = "Get" /\ last.key # "" /\ ~last.found /\ last.err = Nil)
          => db[last.key] = Absent

\* C13: the key is present and Codec.Unmarshal fails for the target: Get
\* returns (true, the unmarshal error) and the record stays as it was.
C13_UnmarshalErrorSurfaced ==
    [][\A k \in NEKeys :
          (/\ last'.op = "Get" /\ last'.key = k
           /\ last'.target \in {"nilptr", "badptr"}
           /\ last'.eng # "fail"
           /\ db[k] # Absent)
          => (last'.found /\ last'.err = ErrUnmarshal /\ db' = db)]_vars

C13_Witness ==
    /\ last.op = "Get" /\ last.key = "a" /\ last.target = "badptr"
    /\ last.found /\ last.err = ErrUnmarshal
    /\ db["a"] = Bytes(codec, FALSE, "baz")

\* C14: Codec.Marshal fails inside Set(k, v): Set returns the marshal error,
\* makes no engine call and leaves the records as they were.
C14_MarshalErrorNoWrite ==
    [][\A k \in NEKeys :
          (last'.op = "Set" /\ last'.key = k /\ last'.val = ChanV)
          => (last'.err = ErrMarshal /\ last'.eng = "none" /\ db' = db)]_vars

C14_Witness ==
    /\ last.op = "Set" /\ last.key = "a" /\ last.val = ChanV
    /\ last.err = ErrMarshal /\ last.eng = "none"
    /\ db["a"] = Bytes(codec, FALSE, "baz")

\* C15: ristretto's Set with a non-empty key and a non-nil value returns
\* ErrPairIsNotAdded iff the cache reports the pair as not taken and nil iff
\* it reports it as taken; the error is none of the other kinds.
C15_PairNotAdded ==
    /\ ErrPairIsNotAdded \notin ValidationErrors \cup {Nil, ErrMarshal, ErrUnmarshal, ErrEngine}
    /\ (adapter = "ristretto" /\ last.op = "Set" /\ last.key # ""
        /\ last.val.kind # "nil")
          => /\ (last.err = ErrPairIsNotAdded <=> last.eng = "fail")
             /\ (last.err = Nil <=> last.eng = "ok")

C15_Witness ==
    /\ adapter = "ristretto" /\ last.op = "Set" /\ last.key = "a"
    /\ last.val = Foo("baz")
    /\ last.err = ErrPairIsNotAdded /\ last.eng = "fail"

\* C16: no error of an engine release step is dropped: Close() returns the
\* error of the engine's close, and pebble's Get returns the error of closing
\* the read handle.
C16_ReleaseErrorsReturned ==
    /\ (last.op = "Close" /\ last.eng = "fail") => last.err = ErrEngine
    /\ (last.op = "Get" /\ last.eng = "closefail") => last.err # Nil

\* C17: a Store is Open or Closed; NewStore returns it Open, Close() takes it
\* to Closed, nothing else changes the state and nothing takes a Closed store
\* back to Open.
C17_Lifecycle ==
    /\ open = TRUE
    /\ [][/\ open' \in BOOLEAN
          /\ (open' => open)
          /\ ((open /\ ~open') => last'.op = "Close")
          /\ (last'.op = "Close" => ~open')]_vars

C17_Witness ==
    /\ ~open /\ last.op = "Set" /\ last.key = "a" /\ last.err = Nil

\* the value a field of the options resolves to: the default if the caller
\* left it at its zero value, the caller's value otherwise
Resolved(given, zero, dflt) == IF given = zero THEN dflt ELSE given

\* C18: NewStore resolves every optional field on its own: unset, it takes
\* the documented default; set, the engine gets the caller's value.
C18_Defaulting ==
    /\ made.ad = "ristretto" =>
          /\ made.config.NumCounters = Resolved(made.options.NumCounters, 0, 1000)
          /\ made.config.MaxCost = Resolved(made.options.MaxCost, 0, 100)
          /\ made.config.BufferItems = Resolved(made.options.BufferItems, 0, 64)
    /\ made.ad = "pebble" =>
          made.config.Path = Resolved(made.options.Path, "", "pebble")
    /\ made.ad = "nutsdb" =>
          /\ made.store.bucketName = Resolved(made.options.BucketName, "", "default")
          /\ made.config.Dir = Resolved(made.options.Path, "", "nuts.db")
          /\ made.config.NodeNum = Resolved(made.options.NodeNum, 0, 1)

\* C19: after any NewStore calls the DefaultOptions of each adapter, and the
\* engine's own that nutsdb's NewStore copies, are what they were, and a
\* NewStore with unset options opens the engine with the defaults whatever
\* the stores made before it were given.
C19_DefaultsKept ==
    /\ defaults = DefaultOptions
    /\ (made.ad = "nutsdb" /\ made.options.Path = "" /\ made.options.NodeNum = 0)
          => (made.config.Dir = "nuts.db" /\ made.config.NodeNum = 1)
    /\ (made.ad = "pebble" /\ made.options.Path = "")
          => made.config.Path = "pebble"

C19_Witness ==
    /\ made.ad = "nutsdb" /\ made.err = Nil
    /\ made.options.Path = "p" /\ made.options.NodeNum = 2
    /\ made.config.Dir = "p" /\ made.config.NodeNum = 2
    /\ defaults.engine.Dir = "" /\ defaults.nutsdb.Path = "nuts.db"

\* C20: a call fails with the empty-key error iff its key is empty, whatever
\* its value (the key is checked first), and Set and Get fail with the
\* nil-value error iff the key is not empty and the value is nil; Delete,
\* which runs CheckKey alone, never fails with the nil-value error.
C20_ValidationOrder ==
    /\ last.op \in {"Set", "Get", "Delete"} =>
          (last.err = ErrEmptyKey <=> last.key = "")
    /\ last.op = "Set" =>
          (last.err = ErrNilValue <=> (last.key # "" /\ IsNilValue(last.val)))
    /\ last.op = "Get" =>
          (last.err = ErrNilValue <=> (last.key # "" /\ IsNilTarget(last.target)))
    /\ last.op = "Delete" => last.err # ErrNilValue

C20_Witness ==
    /\ last.op = "Set" /\ last.key = "" /\ last.val = NilV
    /\ last.err = ErrEmptyKey
    /\ \E k \in NEKeys : db[k] # Absent

\* what Get(k, &out) with a fresh out and a healthy engine returns on the
\* records d
GetResult(d, k) ==
    LET r == StoreGet(adapter, d, codec, k, "ptr", "ok")
    IN  <<r.found, r.err, r.out>>

\* C21: Get leaves the records as they are; Set(k, v) and Delete(k) leave the
\* record of every other key, and what Get returns for it, as they are.
C21_Frame ==
    [][/\ last'.op = "Get" => db' = db
       /\ \A k \in Keys :
             (last'.op \in {"Set", "Delete"} /\ last'.key = k) =>
                \A k2 \in Keys \ {k} :
                   /\ db'[k2] = db[k2]
                   /\ GetResult(db', k2) = GetResult(db, k2)]_vars

C21_Witness ==
    /\ last.op = "Delete" /\ last.key = "a" /\ last.err = Nil /\ last.eng = "ok"
    /\ "a" \in wasSet /\ db["a"] = Absent /\ db["b"] # Absent

\* C22: the buffer a pebble Get has obtained from the engine holds the bytes
\* the engine returned until Codec.Unmarshal has read them: no Set or Delete
\* of another goroutine changes it.
C22_BufferValid ==
    rd.st = "held" => (rd.buf # Torn /\ rd.buf \in {Marshal(codec, v).data : v \in FooVals})

\* the byte sequences Codec.Marshal produces with the Store's codec
Marshalled == {Marshal(codec, v).data : v \in {w \in Vals : Marshal(codec, w).err = Nil}}

\* C23: every value the ristretto cache holds is a byte sequence that
\* Codec.Marshal produced in Set, and Get never returns ErrFailedToCast.
C23_OnlyMarshalledBytes ==
    adapter = "ristretto" =>
        /\ \A k \in Keys : db[k] = Absent \/ db[k] \in Marshalled
        /\ last.err # ErrFailedToCast

C23_Witness ==
    /\ adapter = "ristretto" /\ codec = "gob"
    /\ last.op = "Get" /\ last.key = "b" /\ last.target = "badptr"
    /\ last.found /\ last.err = ErrUnmarshal /\ db["b"] \in Marshalled

\* C24: a Get that returns found = false, for a missing key, a validation
\* error or an error of the engine, leaves the caller's target holding what it
\* held before the call.
C24_TargetUntouched ==
    (last.op = "Get" /\ ~last.found) => last.out = ZeroFoo

C24_Witness ==
    /\ adapter = "nutsdb" /\ last.op = "Get" /\ last.key = "a"
    /\ last.target = "ptr" /\ last.eng = "fail" /\ ~last.found
    /\ db["a"] = Bytes(codec, FALSE, "baz") /\ last.out = ZeroFoo

====
